---- MODULE Spec2Model ----
(***************************************************************************)
(* State-machine model of pyrtcm's RTCMMessage (src/src/pyrtcm/            *)
(* rtcmmessage.py): construction from a payload (schema walk with          *)
(* repeating and conditional groups), immutability after construction,     *)
(* bit extraction, identity derivation, serialization and rendering.       *)
(*                                                                         *)
(* Python bytes are sequences of integers 0..255; arbitrary-precision      *)
(* integer arithmetic on the whole payload is carried out byte by byte so  *)
(* that every intermediate value stays below 2^31.                         *)
(***************************************************************************)
EXTENDS Integers, Sequences, FiniteSets, TLC

VARIABLES
    pc,         \* position of the constructor: "new", "walk" (inside the loop of
                \* _do_attributes), "ret" (_do_attributes has returned), "built", "failed"
    self,       \* the instance: its __dict__
    pdict,      \* _do_attributes: the payload definition being walked
    pos,        \* _do_attributes: number of entries of pdict the loop has taken
    anam,       \* _do_attributes: the loop variable (Unbound before the loop starts)
    offset,     \* _do_attributes: payload offset in bits
    index,      \* _do_attributes: array of (nested) group indices
    err,        \* the exception that escaped the constructor
    calls,      \* number of calls made on the constructed message
    ret         \* outcome of the last call made on the constructed message

vars == <<pc, self, pdict, pos, anam, offset, index, err, calls, ret>>

-----------------------------------------------------------------------------
(* Bounds of the model *)

\* longest payload, in bytes
MaxPayLen == 22
\* width of the MSM satellite mask DF394 in the modelled Data Field Catalog
SatMaskBits == 3
\* width of the MSM signal mask DF395 in the modelled Data Field Catalog
SigMaskBits == 2
\* largest width asked of a direct call of _getbits
MaxProbeLen == 3
\* number of calls made on a constructed message
MaxCalls == 1

-----------------------------------------------------------------------------
(* Integer helpers: Python's bitwise operators on non-negative integers *)

RECURSIVE Pow2(_)
Pow2(n) == IF n <= 0 THEN 1 ELSE 2 * Pow2(n - 1)

Min(a, b) == IF a < b THEN a ELSE b

\* a >> n
Shr(a, n) == a \div Pow2(n)

\* a << n
Shl(a, n) == a * Pow2(n)

RECURSIVE BitAnd(_, _)
BitAnd(a, b) ==
    IF a = 0 \/ b = 0 THEN 0
    ELSE (IF a % 2 = 1 /\ b % 2 = 1 THEN 1 ELSE 0) + 2 * BitAnd(a \div 2, b \div 2)

RECURSIVE BitOr(_, _)
BitOr(a, b) ==
    IF a = 0 THEN b
    ELSE IF b = 0 THEN a
    ELSE (IF a % 2 = 1 \/ b % 2 = 1 THEN 1 ELSE 0) + 2 * BitOr(a \div 2, b \div 2)

RECURSIVE BitXor(_, _)
BitXor(a, b) ==
    IF a = 0 THEN b
    ELSE IF b = 0 THEN a
    ELSE (IF a % 2 # b % 2 THEN 1 ELSE 0) + 2 * BitXor(a \div 2, b \div 2)

\* bin(n).count("1")
RECURSIVE PopCount(_)
PopCount(n) == IF n = 0 THEN 0 ELSE (n % 2) + PopCount(n \div 2)

\* f"{i:02d}"
Fmt02(i) == IF i < 10 THEN "0" \o ToString(i) ELSE ToString(i)

\* f"{i:03d}"
Fmt03(i) == IF i < 10 THEN "00" \o ToString(i)
            ELSE IF i < 100 THEN "0" \o ToString(i) ELSE ToString(i)

-----------------------------------------------------------------------------
(* Values held by attributes *)

\* an int (d = 1) or a float n/d (d > 1)
Num(n, d) == [t |-> "num", n |-> n, d |-> d, s |-> ""]
IntVal(n) == Num(n, 1)
\* a one-character str, chr(n)
ChrVal(n) == [t |-> "chr", n |-> n, d |-> 1, s |-> ""]
\* a str
StrVal(s) == [t |-> "str", n |-> 0, d |-> 1, s |-> s]
\* a bool
BoolVal(b) == [t |-> "bool", n |-> IF b THEN 1 ELSE 0, d |-> 1, s |-> ""]

IsInt(v) == v.t \in {"num", "bool"} /\ v.d = 1

\* the payload argument's default
None == <<256>>

Unbound == "<unbound>"

-----------------------------------------------------------------------------
(* Data Field Catalog: field code -> (encoding type, width, scale factor).  *)
(* A scale factor is the rational num/den; 0/1 means "unscaled".            *)

Field(typ, siz, num, den) == [typ |-> typ, siz |-> siz, num |-> num, den |-> den]

\* private attribute names of the group sizes
NSAT == "_NSat"
NSIG == "_NSig"
NCELL == "_NCell"
NHARMCOEFFC == "_NHarmCoeffC"
NHARMCOEFFS == "_NHarmCoeffS"

RTCM_DATA_FIELDS ==
    ("DF001_3" :> Field("BIT", 3, 0, 1)) @@
    ("DF001_7" :> Field("BIT", 7, 0, 1)) @@
    ("DF002" :> Field("UNT", 12, 0, 1)) @@
    ("DF003" :> Field("UNT", 12, 0, 1)) @@
    ("DF004" :> Field("UNT", 30, 0, 1)) @@
    ("DF029" :> Field("UNT", 8, 0, 1)) @@
    ("DF030" :> Field("CHA", 8, 0, 1)) @@
    ("DF031" :> Field("UNT", 8, 0, 1)) @@
    ("DF393" :> Field("BIT", 1, 0, 1)) @@
    ("DF394" :> Field("BIT", SatMaskBits, 0, 1)) @@
    ("DF395" :> Field("BIT", SigMaskBits, 0, 1)) @@
    ("DF396" :> Field("BIT", 999, 0, 1)) @@
    ("DF398" :> Field("UNT", 10, 1, 1024)) @@
    ("DF400" :> Field("INT", 15, 1, 16777216)) @@
    ("DF409" :> Field("UNT", 3, 0, 1)) @@
    ("DF411" :> Field("UNT", 2, 0, 1)) @@
    ("DF412" :> Field("UNT", 2, 0, 1)) @@
    ("DF417" :> Field("BIT", 1, 0, 1)) @@
    ("DF418" :> Field("BIT", 3, 0, 1)) @@
    ("DF421" :> Field("BIT", 1, 0, 1)) @@
    ("DF422_1" :> Field("BIT", 1, 0, 1)) @@
    ("DF422_2" :> Field("BIT", 1, 0, 1)) @@
    ("DF422_3" :> Field("BIT", 1, 0, 1)) @@
    ("DF422_4" :> Field("BIT", 1, 0, 1)) @@
    ("DF423" :> Field("INT", 16, 1, 50)) @@
    ("DF424" :> Field("INT", 16, 1, 50)) @@
    ("DF425" :> Field("INT", 16, 1, 50)) @@
    ("DF426" :> Field("INT", 16, 1, 50)) @@
    ("IDF001" :> Field("UNT", 3, 0, 1)) @@
    ("IDF002" :> Field("UNT", 8, 0, 1)) @@
    ("IDF003" :> Field("UNT", 20, 0, 1)) @@
    ("IDF004" :> Field("BIT", 4, 0, 1)) @@
    ("IDF005" :> Field("BIT", 1, 0, 1)) @@
    ("IDF007" :> Field("UNT", 4, 0, 1)) @@
    ("IDF008" :> Field("UNT", 16, 0, 1)) @@
    ("IDF009" :> Field("UNT", 4, 0, 1)) @@
    ("IDF010" :> Field("UNT", 6, 0, 1)) @@
    ("IDF011" :> Field("UNT", 6, 0, 1)) @@
    ("IDF023" :> Field("UNT", 5, 0, 1)) @@
    ("IDF024" :> Field("UNT", 5, 0, 1)) @@
    ("IDF025" :> Field("INT", 14, 1, 100)) @@
    ("IDF035" :> Field("UNT", 2, 0, 1)) @@
    ("IDF036" :> Field("UNT", 8, 10, 1)) @@
    ("IDF037" :> Field("UNT", 4, 0, 1)) @@
    ("IDF038" :> Field("UNT", 4, 0, 1)) @@
    ("IDF039" :> Field("INT", 16, 1, 200)) @@
    ("IDF040" :> Field("INT", 16, 1, 200)) @@
    ("IDF041" :> Field("UNT", 9, 1, 20))

\* Message Identity Catalog: identity -> description
RTCM_MSGIDS ==
    ("1007" :> "Antenna Descriptor") @@
    ("1071" :> "GPS MSM1") @@
    ("1230" :> "GLONASS L1 and L2 Code-Phase Biases") @@
    ("4076_025" :> "IGS SSR GPS Code Bias") @@
    ("4076_201" :> "IGS SSR Ionosphere VTEC Spherical Harmonics")

\* the descriptions d of the catalog with "MSM" in d
MsmDescriptions == {"GPS MSM1"}

\* field-name stems of per-satellite and per-cell MSM attributes
ATT_NSAT == {"DF398"}
ATT_NCELL == {"DF400"}

-----------------------------------------------------------------------------
(* Payload Definition Catalog: identity -> ordered schema.                  *)
(* An entry is a flat field, a repeating group (fixed count, or the name    *)
(* of the attribute holding the count with the number of nested-group       *)
(* indices to append to that name), or a conditional group.                 *)

Flat(code) ==
    [key |-> code, kind |-> "single", fixed |-> FALSE, siz |-> 0,
     cnam |-> "", nest |-> 0, con |-> 0, body |-> <<>>]

\* key: (cnam, body) or (cnam+nest, body)
Group(key, cnam, nest, body) ==
    [key |-> key, kind |-> "group", fixed |-> FALSE, siz |-> 0,
     cnam |-> cnam, nest |-> nest, con |-> 0, body |-> body]

\* key: (n, body)
FixedGroup(key, n, body) ==
    [key |-> key, kind |-> "group", fixed |-> TRUE, siz |-> n,
     cnam |-> "", nest |-> 0, con |-> 0, body |-> body]

\* key: ((cnam, con), body)
Optional(key, cnam, con, body) ==
    [key |-> key, kind |-> "optional", fixed |-> FALSE, siz |-> 0,
     cnam |-> cnam, nest |-> 0, con |-> con, body |-> body]

IGS_HDR ==
    <<Flat("DF002"), Flat("IDF001"), Flat("IDF002"), Flat("IDF003"), Flat("IDF004"),
      Flat("IDF005"), Flat("IDF007"), Flat("IDF008"), Flat("IDF009")>>

MSM_HDR ==
    <<Flat("DF002"), Flat("DF003"), Flat("DF004"), Flat("DF393"), Flat("DF409"),
      Flat("DF001_7"), Flat("DF411"), Flat("DF412"), Flat("DF417"), Flat("DF418"),
      Flat("DF394"), Flat("DF395"), Flat("DF396")>>

RTCM_PAYLOADS_GET ==
    ("1007" :> <<Flat("DF002"), Flat("DF003"), Flat("DF029"),
                 Group("group", "DF029", 0, <<Flat("DF030")>>),
                 Flat("DF031")>>) @@
    ("1071" :> MSM_HDR \o
               <<Group("groupsat", NSAT, 0, <<Flat("DF398")>>),
                 Group("groupsig", NCELL, 0, <<Flat("DF400")>>)>>) @@
    ("1230" :> <<Flat("DF002"), Flat("DF003"), Flat("DF421"), Flat("DF001_3"),
                 Flat("DF422_1"), Flat("DF422_2"), Flat("DF422_3"), Flat("DF422_4"),
                 Optional("groupL1CA", "DF422_1", 1, <<Flat("DF423")>>),
                 Optional("groupL1P", "DF422_2", 1, <<Flat("DF424")>>),
                 Optional("groupL2CA", "DF422_3", 1, <<Flat("DF425")>>),
                 Optional("groupL2P", "DF422_4", 1, <<Flat("DF426")>>)>>) @@
    ("4076_025" :> IGS_HDR \o
               <<Flat("IDF010"),
                 Group("groupsat", "IDF010", 0,
                       <<Flat("IDF011"), Flat("IDF023"),
                         Group("groupbias", "IDF023", 1,
                               <<Flat("IDF024"), Flat("IDF025")>>)>>)>>) @@
    ("4076_201" :> IGS_HDR \o
               <<Flat("IDF041"), Flat("IDF035"),
                 Group("group", "IDF035", 0,
                       <<Flat("IDF036"), Flat("IDF037"), Flat("IDF038"),
                         Group("groupc", NHARMCOEFFC, 0, <<Flat("IDF039")>>),
                         Group("groups", NHARMCOEFFS, 0, <<Flat("IDF040")>>)>>)>>)

\* pdict is None
NoDict == <<Flat("None")>>


-----------------------------------------------------------------------------
(* The instance: the slots assigned by __init__ plus the dynamically named  *)
(* attributes, kept in insertion order as <<name, value>> records.          *)

NewObject ==
    [immutable |-> FALSE, payload |-> None, payblen |-> 0, scaling |-> TRUE,
     labelmsm |-> 1, unknown |-> FALSE, attrs |-> <<>>]

HasAttr(o, name) == \E i \in 1..Len(o.attrs) : o.attrs[i].k = name

\* getattr(self, name) for a dynamically named attribute that exists
GetAttr(o, name) ==
    o.attrs[CHOOSE i \in 1..Len(o.attrs) : o.attrs[i].k = name].v

\* object.__setattr__: a dict store, an existing key keeps its position
Store(o, name, value) ==
    CASE name = "_immutable" -> [o EXCEPT !.immutable = value]
      [] name = "_payload" -> [o EXCEPT !.payload = value]
      [] name = "_payblen" -> [o EXCEPT !.payblen = value]
      [] name = "_scaling" -> [o EXCEPT !.scaling = value]
      [] name = "_labelmsm" -> [o EXCEPT !.labelmsm = value]
      [] name = "_unknown" -> [o EXCEPT !.unknown = value]
      [] OTHER ->
            IF HasAttr(o, name)
            THEN [o EXCEPT !.attrs =
                    [i \in 1..Len(o.attrs) |->
                        IF o.attrs[i].k = name THEN [k |-> name, v |-> value]
                        ELSE o.attrs[i]]]
            ELSE [o EXCEPT !.attrs = Append(o.attrs, [k |-> name, v |-> value])]

\* __setattr__ that guards only the attributes that exist already
SetattrKnownOnly(o, name, value) ==
    IF o.immutable /\ (HasAttr(o, name) \/ name = "_immutable")
    THEN [o |-> o, err |-> "RTCMMessageError"]
    ELSE [o |-> Store(o, name, value), err |-> ""]

\* RTCMMessage.__setattr__
Setattr(o, name, value) ==
    IF o.immutable
    THEN [o |-> o, err |-> "RTCMMessageError"]
    ELSE [o |-> Store(o, name, value), err |-> ""]

\* the names of the public attributes, in insertion order
PublicNames(o) ==
    LET pub == SelectSeq(o.attrs, LAMBDA a : a.k \notin {NSAT, NSIG, NCELL, NHARMCOEFFC, NHARMCOEFFS})
    IN  [i \in 1..Len(pub) |-> pub[i].k]

-----------------------------------------------------------------------------
(* Bit & checksum helpers *)

\* attsiz
AttSiz(atyp) == atyp.siz

\* bits2val: type-specific interpretation, then scaling by ares = num/den
Bits2Val(atyp, ares, bitfield) ==
    LET msb == Pow2(AttSiz(atyp) - 1)
        val == IF atyp.typ = "INT"
               THEN BitAnd(bitfield, msb - 1) - BitAnd(bitfield, msb)
               ELSE bitfield
    IN  IF atyp.typ = "CHA" THEN ChrVal(bitfield)
        ELSE IF atyp.typ \in {"INT", "UNT"} /\ ares.num # 0
             THEN Num(val * ares.num, ares.den)
             ELSE IntVal(val)

\* the part of (int.from_bytes(payload, "big") >> shift) & (2**length - 1)
\* contributed by the byte b whose least significant bit has weight 2**e
ByteBits(b, e, shift, length) ==
    IF e >= shift
    THEN IF e - shift >= length THEN 0
         ELSE Shl(b % Pow2(length - (e - shift)), e - shift)
    ELSE IF shift - e >= 8 THEN 0
         ELSE Shr(b, shift - e) % Pow2(length)

RECURSIVE ShiftMask(_, _, _, _)
ShiftMask(bytes, i, shift, length) ==
    IF i > Len(bytes) THEN 0
    ELSE ByteBits(bytes[i], 8 * (Len(bytes) - i), shift, length)
         + ShiftMask(bytes, i + 1, shift, length)

\* _getbits that rejects the exact fit
GetBitsOffByOne(o, position, length) ==
    IF position + length >= o.payblen
    THEN [err |-> "RTCMMessageError", val |-> 0]
    ELSE [err |-> "", val |-> ShiftMask(o.payload, 1, o.payblen - position - length, length)]

\* RTCMMessage._getbits
GetBits(o, position, length) ==
    IF position + length > o.payblen
    THEN [err |-> "RTCMMessageError", val |-> 0]
    ELSE [err |-> "", val |-> ShiftMask(o.payload, 1, o.payblen - position - length, length)]

\* identity that takes the sub-type from the whole of payload[1]
IdentityNoMask(o) ==
    IF Len(o.payload) < 2 THEN [err |-> "IndexError", val |-> ""]
    ELSE LET mid == BitOr(Shl(o.payload[1], 4), Shr(o.payload[2], 4))
         IN  IF mid = 4076
             THEN IF Len(o.payload) < 3 THEN [err |-> "IndexError", val |-> ""]
                  ELSE LET subtype == BitOr(Shl(o.payload[2], 7), Shr(o.payload[3], 1))
                       IN  [err |-> "", val |-> ToString(mid) \o "_" \o Fmt03(subtype)]
             ELSE [err |-> "", val |-> ToString(mid)]

\* RTCMMessage.identity
Identity(o) ==
    IF Len(o.payload) < 2 THEN [err |-> "IndexError", val |-> ""]
    ELSE LET mid == BitOr(Shl(o.payload[1], 4), Shr(o.payload[2], 4))
         IN  IF mid = 4076
             THEN IF Len(o.payload) < 3 THEN [err |-> "IndexError", val |-> ""]
                  ELSE LET subtype == BitOr(Shl(BitAnd(o.payload[2], 1), 7),
                                            Shr(o.payload[3], 1))
                       IN  [err |-> "", val |-> ToString(mid) \o "_" \o Fmt03(subtype)]
             ELSE [err |-> "", val |-> ToString(mid)]

\* RTCMMessage._get_dict
GetDict(o) ==
    LET id == Identity(o)
    IN  IF id.err # "" THEN [err |-> id.err, val |-> NoDict]
        ELSE IF id.val \in DOMAIN RTCM_PAYLOADS_GET
             THEN [err |-> "", val |-> RTCM_PAYLOADS_GET[id.val]]
             ELSE [err |-> "", val |-> NoDict]

\* _do_unknown that leaves the unknown flag alone
DoUnknownNoFlag(o) == Setattr(o, "DF002", StrVal(Identity(o).val))

\* RTCMMessage._do_unknown
DoUnknown(o) ==
    LET s1 == Setattr(o, "DF002", StrVal(Identity(o).val))
        s2 == Setattr(s1.o, "_unknown", TRUE)
    IN  IF s1.err # "" THEN s1 ELSE s2

-----------------------------------------------------------------------------
(* The schema walk.  A walk state w is the instance o, the running bit      *)
(* offset, the list of nested group indices and the exception raised ("").  *)

Raise(w, e) == [w EXCEPT !.err = e]

\* anam suffixed with _NN for every nonzero index
RECURSIVE Suffixed(_, _, _)
Suffixed(name, idx, k) ==
    IF k > Len(idx) THEN name
    ELSE Suffixed(IF idx[k] > 0 THEN name \o "_" \o Fmt02(idx[k]) ELSE name, idx, k + 1)

\* anam suffixed with the first nestlevel indices
RECURSIVE NestName(_, _, _, _)
NestName(name, idx, k, nestlevel) ==
    IF k > nestlevel THEN name
    ELSE NestName(name \o "_" \o Fmt02(idx[k]), idx, k + 1, nestlevel)

\* setattr(self, name, value) inside the walk
WSet(w, name, value) ==
    LET r == Setattr(w.o, name, value)
    IN  IF w.err # "" THEN w
        ELSE IF r.err # "" THEN Raise(w, r.err)
        ELSE [w EXCEPT !.o = r.o]

\* group sizes taken from the value of the mask instead of its set bits
MsmSizesByValue(fld, bitfield, w) ==
    IF fld = "DF394" THEN WSet(w, NSAT, IntVal(bitfield))
    ELSE IF fld = "DF395" THEN WSet(w, NSIG, IntVal(bitfield))
    ELSE IF fld = "DF396" THEN WSet(w, NCELL, IntVal(bitfield))
    ELSE w

\* the MSM group sizes kept after DF394, DF395 and DF396
MsmSizes(fld, bitfield, w) ==
    LET nbits == PopCount(bitfield)
    IN  IF fld = "DF394" THEN WSet(w, NSAT, IntVal(nbits))
        ELSE IF fld = "DF395" THEN WSet(w, NSIG, IntVal(nbits))
        ELSE IF fld = "DF396" THEN WSet(w, NCELL, IntVal(nbits))
        ELSE w

\* the harmonic coefficient sizes kept after IDF038 (message 4076_201)
HarmCoeffs(fld, w) ==
    IF fld # "IDF038" \/ w.err # "" THEN w
    ELSE IF Len(w.index) = 0 THEN Raise(w, "IndexError")
    ELSE LET i == w.index[1]
             n37 == "IDF037_" \o Fmt02(i)
             n38 == "IDF038_" \o Fmt02(i)
         IN  IF ~HasAttr(w.o, n37) \/ ~HasAttr(w.o, n38) THEN Raise(w, "AttributeError")
             ELSE LET N == GetAttr(w.o, n37).n + 1
                      M == GetAttr(w.o, n38).n + 1
                      nc == ((N + 1) * (N + 2)) \div 2 - ((N - M) * (N - M + 1)) \div 2
                      ns == nc - (N + 1)
                  IN  WSet(WSet(w, NHARMCOEFFC, IntVal(nc)), NHARMCOEFFS, IntVal(ns))

\* the catalog's scale factor whatever the scaling flag
ScaleForAlways(o, atyp) == [num |-> atyp.num, den |-> atyp.den]

\* if not self._scaling: ares = 0
ScaleFor(o, atyp) ==
    IF ~o.scaling THEN [num |-> 0, den |-> 1]
    ELSE [num |-> atyp.num, den |-> atyp.den]

\* RTCMMessage._set_attribute_single
SetAttributeSingle(fld, w) ==
    LET anami == Suffixed(fld, w.index, 1)
    IN  IF fld \notin DOMAIN RTCM_DATA_FIELDS THEN Raise(w, "KeyError")
        ELSE
        LET atyp == RTCM_DATA_FIELDS[fld]
            ares == ScaleFor(w.o, atyp)
        IN  IF fld = "DF396" /\ (~HasAttr(w.o, NSAT) \/ ~HasAttr(w.o, NSIG))
            THEN Raise(w, "AttributeError")
            ELSE
            LET asiz == IF fld = "DF396"
                        THEN GetAttr(w.o, NSAT).n * GetAttr(w.o, NSIG).n
                        ELSE AttSiz(atyp)
                bits == GetBits(w.o, w.offset, asiz)
            IN  IF bits.err # "" THEN Raise(w, bits.err)
                ELSE
                LET val == Bits2Val(atyp, ares, bits.val)
                    w1 == WSet(w, anami, val)
                    w2 == IF w1.err # "" THEN w1 ELSE [w1 EXCEPT !.offset = w.offset + asiz]
                    w3 == IF w2.err # "" THEN w2 ELSE MsmSizes(fld, bits.val, w2)
                IN  HarmCoeffs(fld, w3)

RECURSIVE SetAttribute(_, _)
RECURSIVE WalkDict(_, _, _)
RECURSIVE GroupLoop(_, _, _, _)

\* for anamg in gdict: (offset, index) = self._set_attribute(anamg, gdict, offset, index)
WalkDict(gdict, k, w) ==
    IF w.err # "" \/ k > Len(gdict) THEN w
    ELSE WalkDict(gdict, k + 1, SetAttribute(gdict[k], w))

\* RTCMMessage._set_attribute_optional
SetAttributeOptional(atyp, w) ==
    IF ~HasAttr(w.o, atyp.cnam) THEN Raise(w, "AttributeError")
    ELSE LET v == GetAttr(w.o, atyp.cnam)
         IN  IF v.t \in {"num", "bool"} /\ v.n = atyp.con * v.d
             THEN WalkDict(atyp.body, 1, w)
             ELSE w

\* for i in range(gsiz): index[-1] = i + 1; decode every attribute of gdict
GroupLoop(gdict, i, gsiz, w) ==
    IF w.err # "" \/ i > gsiz THEN w
    ELSE GroupLoop(gdict, i + 1, gsiz,
                   WalkDict(gdict, 1, [w EXCEPT !.index[Len(w.index)] = i]))

\* a group that leaves its index on the stack
IndexKeep(w) == w

\* index.pop()
IndexPop(w) ==
    IF w.err # "" THEN w
    ELSE [w EXCEPT !.index = SubSeq(w.index, 1, Len(w.index) - 1)]

\* RTCMMessage._set_attribute_group
SetAttributeGroup(atyp, w) ==
    IF atyp.fixed
    THEN IndexPop(GroupLoop(atyp.body, 1, atyp.siz, [w EXCEPT !.index = Append(w.index, 0)]))
    ELSE IF atyp.nest > Len(w.index) THEN Raise(w, "IndexError")
    ELSE LET name == NestName(atyp.cnam, w.index, 1, atyp.nest)
         IN  IF ~HasAttr(w.o, name) THEN Raise(w, "AttributeError")
             ELSE LET v == GetAttr(w.o, name)
                      gsiz == IF name = "IDF035" THEN v.n + 1 ELSE v.n
                  IN  IF name = "IDF035" /\ v.t \in {"chr", "str"}
                      \* gsiz += 1 on a str raises before index.append(0)
                      THEN Raise(w, "TypeError")
                      ELSE IF ~IsInt(v)
                      \* range(gsiz) raises after index.append(0)
                      THEN Raise([w EXCEPT !.index = Append(w.index, 0)], "TypeError")
                      ELSE IndexPop(GroupLoop(atyp.body, 1, gsiz,
                                              [w EXCEPT !.index = Append(w.index, 0)]))

\* RTCMMessage._set_attribute
SetAttribute(atyp, w) ==
    IF atyp.kind = "optional" THEN SetAttributeOptional(atyp, w)
    ELSE IF atyp.kind = "group" THEN SetAttributeGroup(atyp, w)
    ELSE SetAttributeSingle(atyp.key, w)


\* for anam in pdict: (offset, index) = self._set_attribute(anam, pdict, offset, index)
\* offset is assigned when _set_attribute returns, so a walk that raises
\* leaves it as it was before the entry; index is a list changed in place
RECURSIVE DoAttributesLoop(_, _, _)
DoAttributesLoop(gdict, k, w) ==
    IF w.err # "" \/ k > Len(gdict) THEN w
    ELSE LET w1 == SetAttribute(gdict[k], w)
         IN  DoAttributesLoop(gdict, k + 1,
                              IF w1.err # "" THEN [w1 EXCEPT !.offset = w.offset] ELSE w1)

\* RTCMMessage._do_attributes on an instance whose payload definition is
\* gdict, as one walk: the outcome of the whole loop
DoAttributes(o, gdict) ==
    DoAttributesLoop(gdict, 1, [o |-> o, offset |-> 0, index |-> <<>>, err |-> ""])

-----------------------------------------------------------------------------
(* Serialization helpers *)

\* the preamble
RTCM_HDR == <<211>>

\* the CRC-24Q polynomial 0x1864CFB
CrcPoly == 25578747

\* len2bytes: the payload length as two big-endian bytes
Len2Bytes(bytes) == <<Len(bytes) \div 256, Len(bytes) % 256>>

\* for _ in range(8): crc <<= 1; if crc & 0x1000000: crc ^= POLY
RECURSIVE CrcShift(_, _)
CrcShift(crc, n) ==
    IF n = 0 \/ crc < 0 THEN crc
    ELSE LET c == Shl(crc, 1)
         IN  CrcShift(IF BitAnd(c, 16777216) # 0 THEN BitXor(c, CrcPoly) ELSE c, n - 1)

\* calc_crc24q
RECURSIVE CalcCrc24q(_, _, _)
CalcCrc24q(message, i, crc) ==
    IF i > Len(message) \/ crc < 0 THEN BitAnd(crc, 16777215)
    ELSE CalcCrc24q(message, i + 1, CrcShift(BitXor(crc, Shl(message[i], 16)), 8))

\* crc2bytes: the checksum as three big-endian bytes
Crc2Bytes(message) ==
    LET crc == CalcCrc24q(message, 1, 0)
    IN  <<crc \div 65536, (crc \div 256) % 256, crc % 256>>

\* serialize whose checksum leaves out the preamble
SerializeCrcNoHdr(o) ==
    LET size == Len2Bytes(o.payload)
        message == RTCM_HDR \o size \o o.payload
        crc == Crc2Bytes(size \o o.payload)
    IN  message \o crc

\* RTCMMessage.serialize
Serialize(o) ==
    LET size == Len2Bytes(o.payload)
        message == RTCM_HDR \o size \o o.payload
        crc == Crc2Bytes(message)
    IN  message \o crc

-----------------------------------------------------------------------------
(* Rendering.  A rendering is the sequence of the string pieces that        *)
(* __str__ concatenates.                                                    *)

\* RTCMMessage.ismsm
IsMsm(o) ==
    LET id == Identity(o).val
    IN  IF id \in DOMAIN RTCM_MSGIDS THEN RTCM_MSGIDS[id] \in MsmDescriptions ELSE FALSE

\* str(val)
ValStr(v) ==
    CASE v.t = "str" -> v.s
      [] v.t = "chr" -> "chr(" \o ToString(v.n) \o ")"
      [] v.t = "bool" -> IF v.n = 1 THEN "True" ELSE "False"
      [] OTHER -> IF v.d = 1 THEN ToString(v.n)
                  ELSE ToString(v.n) \o "/" \o ToString(v.d)

\* the positions (1-based, from the most significant bit) of the set bits of
\* a mask of the given width, in bit order
SetBitPositions(mask, width) ==
    LET isSet(i) == Shr(mask, width - i) % 2 = 1
        F[i \in 0..width] ==
            IF i = 0 THEN <<>>
            ELSE IF isSet(i) THEN Append(F[i - 1], i) ELSE F[i - 1]
    IN  F[width]

\* sat2prn: group index -> PRN of the satellite
Sat2Prn(o) ==
    LET ps == SetBitPositions(GetAttr(o, "DF394").n, SatMaskBits)
    IN  [i \in 1..Len(ps) |-> Fmt03(ps[i])]

\* cell2prn: group index -> (PRN, signal label) of the cell
Cell2Prn(o, sigcode) ==
    LET sats == Sat2Prn(o)
        sigs == SetBitPositions(GetAttr(o, "DF395").n, SigMaskBits)
        nsig == Len(sigs)
        cells == SetBitPositions(GetAttr(o, "DF396").n, Len(sats) * nsig)
        lbl(g) == (IF sigcode = 1 THEN "S" ELSE "F") \o ToString(sigs[g])
    IN  [i \in 1..Len(cells) |->
            <<sats[((cells[i] - 1) \div nsig) + 1], lbl(((cells[i] - 1) % nsig) + 1)>>]

\* number of entries that __init__ puts into __dict__ before the walk
InitSlots == 6

\* the label of attribute att: att2name(att) is a stem of stems and
\* att2idx(att) is the group index
LabelIdx(att, stems, maxidx) ==
    IF \E st \in stems, i \in 1..maxidx : att = st \o "_" \o Fmt02(i)
    THEN CHOOSE i \in 1..maxidx : \E st \in stems : att = st \o "_" \o Fmt02(i)
    ELSE 0

\* the pieces appended for attribute number k of the dynamically named ones
StrAttr(o, k) ==
    LET att == o.attrs[k].k
        i == InitSlots + k - 1
        labelled == o.labelmsm # 0 /\ IsMsm(o)
        si == IF labelled THEN LabelIdx(att, ATT_NSAT, SatMaskBits) ELSE 0
        ci == IF labelled THEN LabelIdx(att, ATT_NCELL, SatMaskBits * SigMaskBits) ELSE 0
        cells == Cell2Prn(o, IF o.labelmsm = 2 THEN 0 ELSE 1)
        lbl == IF ci > 0 THEN "(" \o cells[ci][1] \o "," \o cells[ci][2] \o ")"
               ELSE IF si > 0 THEN "(" \o Sat2Prn(o)[si] \o ")"
               ELSE ""
    IN  IF att \in {NSAT, NSIG, NCELL, NHARMCOEFFC, NHARMCOEFFS} THEN <<>>
        ELSE <<att \o lbl, "=", ValStr(o.attrs[k].v)>>
             \o (IF i < InitSlots + Len(o.attrs) - 1 THEN <<", ">> ELSE <<>>)

RECURSIVE StrAttrs(_, _)
StrAttrs(o, k) ==
    IF k > Len(o.attrs) THEN <<>> ELSE StrAttr(o, k) \o StrAttrs(o, k + 1)

\* RTCMMessage.__str__
Str(o) ==
    <<"<RTCM(", Identity(o).val, ", ">>
    \o StrAttrs(o, 1)
    \o (IF o.unknown THEN <<", Not_Yet_Implemented">> ELSE <<>>)
    \o <<")>">>

\* RTCMMessage.__repr__
Repr(o) == <<"RTCMMessage(payload=", o.payload, ")">>

-----------------------------------------------------------------------------
(* Inputs *)

\* the payloads offered to the constructor are the first n bytes, for every
\* n up to MaxPayLen, of a sample: opening bytes followed by a fill byte
\* repeated for ever
Sample(opening, fill) == [opening |-> opening, fill |-> fill]

Samples ==
    { Sample(<<62, 240>>, 0),          \* 1007 with no antenna descriptor
      Sample(<<62, 244, 210, 3, 65, 66, 67, 234>>, 0),
                                       \* 1007 of the benchmark corpus
      Sample(<<66, 240>>, 0),          \* 1071 with empty masks
      Sample(<<66, 240>>, 110),        \* 1071 with satellites, signals and cells
      Sample(<<76, 224, 0, 128>>, 0),  \* 1230 of the benchmark corpus
      Sample(<<76, 224>>, 110),        \* 1230 with three of four bias groups
      Sample(<<76, 224>>, 255),        \* 1230 with all bias groups
      Sample(<<77, 39>>, 0),           \* 1234: no payload definition
      Sample(<<254, 192, 0>>, 0),      \* 4076_000: no payload definition
      Sample(<<254, 193, 146>>, 0),    \* 4076_201 with one layer
      Sample(<<254, 192, 50, 36, 104, 171, 48, 16, 34, 8, 81, 7, 255, 209, 0, 14,
               72, 70, 3, 32>>, 0) }   \* 4076_025 with two satellites

MkPayload(sample, n) ==
    [i \in 1..n |-> IF i <= Len(sample.opening) THEN sample.opening[i] ELSE sample.fill]

Payloads ==
    {None} \cup { MkPayload(sm, n) : sm \in Samples, n \in 0..MaxPayLen }

\* the attribute assignments a caller attempts on a constructed message
UserWrites ==
    { <<"DF002", IntVal(0)>>, <<"foo", StrVal("bar")>>,
      <<"_immutable", FALSE>>, <<"_payload", <<0, 0>> >> }

\* the bit positions asked of a direct call of _getbits
ProbePositions == {0, 13, 16}

-----------------------------------------------------------------------------
(* The state machine *)

NoErr == [kind |-> "", anam |-> "", id |-> "", cause |-> ""]
NoRet == [op |-> "", err |-> "", arg |-> <<>>, val |-> <<>>]

Init ==
    /\ pc = "new"
    /\ self = NewObject
    /\ pdict = NoDict
    /\ pos = 0
    /\ anam = Unbound
    /\ offset = 0
    /\ index = <<>>
    /\ err = NoErr
    /\ calls = 0
    /\ ret = NoRet

\* the except clause of _do_attributes: the message is formatted from anam
\* and self.identity, then RTCMTypeError is raised
Handler(o, a, cause) ==
    IF a = Unbound THEN [kind |-> "UnboundLocalError", anam |-> "", id |-> "", cause |-> cause]
    ELSE IF Identity(o).err # ""
    THEN [kind |-> Identity(o).err, anam |-> a, id |-> "", cause |-> cause]
    ELSE [kind |-> "RTCMTypeError", anam |-> a, id |-> Identity(o).val, cause |-> cause]

\* RTCMMessage.__init__ up to the loop of _do_attributes
Construct(p, s, l) ==
    /\ pc = "new"
    /\ LET o0 == Store(NewObject, "_immutable", FALSE)
           o1 == Setattr(o0, "_payload", p).o
           o2 == Setattr(o1, "_payblen", Len(p) * 8).o
           o3 == Setattr(o2, "_scaling", s).o
           o4 == Setattr(o3, "_labelmsm", l).o
           o5 == Setattr(o4, "_unknown", FALSE).o
           d == GetDict(o5)
           u == DoUnknown(o5)
       IN  IF p = None
           THEN /\ self' = o1
                /\ pc' = "failed"
                /\ err' = [kind |-> "RTCMMessageError", anam |-> "", id |-> "",
                           cause |-> "Payload must be specified"]
                /\ UNCHANGED <<pdict>>
           ELSE IF d.err # ""
           THEN /\ self' = o5
                /\ pc' = "failed"
                /\ err' = Handler(o5, anam, d.err)
                /\ UNCHANGED <<pdict>>
           ELSE IF d.val = NoDict
           THEN /\ self' = u.o
                /\ pc' = IF u.err = "" THEN "ret" ELSE "failed"
                /\ err' = IF u.err = "" THEN NoErr ELSE Handler(o5, anam, u.err)
                /\ UNCHANGED <<pdict>>
           ELSE /\ self' = o5
                /\ pc' = IF Len(d.val) = 0 THEN "ret" ELSE "walk"
                /\ pdict' = d.val
                /\ UNCHANGED <<err>>
    /\ offset' = 0
    /\ index' = <<>>
    /\ UNCHANGED <<pos, anam, calls, ret>>

\* one iteration of: for anam in pdict: (offset, index) = self._set_attribute(...)
DecodeNext ==
    /\ pc = "walk"
    /\ pos < Len(pdict)
    /\ LET atyp == pdict[pos + 1]
           w == SetAttribute(atyp, [o |-> self, offset |-> offset, index |-> index, err |-> ""])
       IN  /\ anam' = atyp.key
           /\ pos' = pos + 1
           /\ self' = w.o
           /\ offset' = IF w.err # "" THEN offset ELSE w.offset
           /\ index' = w.index
           /\ IF w.err # ""
              THEN /\ pc' = "failed"
                   /\ err' = Handler(w.o, atyp.key, w.err)
              ELSE /\ pc' = IF pos + 1 = Len(pdict) THEN "ret" ELSE "walk"
                   /\ UNCHANGED err
    /\ UNCHANGED <<pdict, calls, ret>>

\* __init__ after _do_attributes: self._immutable = True
Finish ==
    /\ pc = "ret"
    /\ LET r == Setattr(self, "_immutable", TRUE)
       IN  /\ self' = r.o
           /\ pc' = IF r.err = "" THEN "built" ELSE "failed"
           /\ err' = IF r.err = "" THEN err
                     ELSE [kind |-> r.err, anam |-> "", id |-> "", cause |-> ""]
    /\ UNCHANGED <<pdict, pos, anam, offset, index, calls, ret>>

\* msg.<name> = value on a constructed message
SetAttrCall(name, value) ==
    /\ pc = "built"
    /\ calls < MaxCalls
    /\ calls' = calls + 1
    /\ LET r == Setattr(self, name, value)
       IN  /\ self' = r.o
           /\ ret' = [op |-> "setattr", err |-> r.err, arg |-> <<name>>, val |-> <<>>]
    /\ UNCHANGED <<pc, pdict, pos, anam, offset, index, err>>

\* msg.serialize()
SerializeCall ==
    /\ pc = "built"
    /\ calls < MaxCalls
    /\ calls' = calls + 1
    /\ ret' = [op |-> "serialize", err |-> "", arg |-> <<>>, val |-> Serialize(self)]
    /\ UNCHANGED <<pc, self, pdict, pos, anam, offset, index, err>>

\* str(msg)
StrCall ==
    /\ pc = "built"
    /\ calls < MaxCalls
    /\ calls' = calls + 1
    /\ ret' = [op |-> "str", err |-> "", arg |-> <<>>, val |-> Str(self)]
    /\ UNCHANGED <<pc, self, pdict, pos, anam, offset, index, err>>

\* repr(msg)
ReprCall ==
    /\ pc = "built"
    /\ calls < MaxCalls
    /\ calls' = calls + 1
    /\ ret' = [op |-> "repr", err |-> "", arg |-> <<>>, val |-> Repr(self)]
    /\ UNCHANGED <<pc, self, pdict, pos, anam, offset, index, err>>

\* msg.identity
IdentityCall ==
    /\ pc = "built"
    /\ calls < MaxCalls
    /\ calls' = calls + 1
    /\ ret' = [op |-> "identity", err |-> Identity(self).err, arg |-> <<>>,
               val |-> <<Identity(self).val>>]
    /\ UNCHANGED <<pc, self, pdict, pos, anam, offset, index, err>>

\* msg.payload
PayloadCall ==
    /\ pc = "built"
    /\ calls < MaxCalls
    /\ calls' = calls + 1
    /\ ret' = [op |-> "payload", err |-> "", arg |-> <<>>, val |-> self.payload]
    /\ UNCHANGED <<pc, self, pdict, pos, anam, offset, index, err>>

\* msg._getbits(position, length)
GetBitsCall(position, length) ==
    /\ pc = "built"
    /\ calls < MaxCalls
    /\ calls' = calls + 1
    /\ ret' = [op |-> "getbits", err |-> GetBits(self, position, length).err,
               arg |-> <<position, length>>, val |-> <<GetBits(self, position, length).val>>]
    /\ UNCHANGED <<pc, self, pdict, pos, anam, offset, index, err>>

\* msg.ismsm
IsMsmCall ==
    /\ pc = "built"
    /\ calls < MaxCalls
    /\ calls' = calls + 1
    /\ ret' = [op |-> "ismsm", err |-> "", arg |-> <<>>, val |-> <<IsMsm(self)>>]
    /\ UNCHANGED <<pc, self, pdict, pos, anam, offset, index, err>>

Next ==
    \/ \E p \in Payloads, s \in BOOLEAN, l \in 0..2 : Construct(p, s, l)
    \/ DecodeNext
    \/ Finish
    \/ \E u \in UserWrites : SetAttrCall(u[1], u[2])
    \/ SerializeCall
    \/ StrCall
    \/ ReprCall
    \/ IdentityCall
    \/ PayloadCall
    \/ IsMsmCall
    \/ \E position \in ProbePositions, length \in 0..MaxProbeLen : GetBitsCall(position, length)

Spec == Init /\ [][Next]_vars

-----------------------------------------------------------------------------
(* The schema walk over schemas that place conditional groups at the top    *)
(* level and inside repeating groups.  _set_attribute dispatches on the     *)
(* shape of each entry, so the walk is the same for any schema the          *)
(* catalog holds; the schemas here are built from the fields of 1230.       *)

BiasHdr ==
    <<Flat("DF002"), Flat("DF003"), Flat("DF421"), Flat("DF001_3"),
      Flat("DF422_1"), Flat("DF422_2"), Flat("DF422_3"), Flat("DF422_4")>>

OptSchemas ==
    { \* 1230 as the catalog has it: four conditional groups at the top level
      RTCM_PAYLOADS_GET["1230"],
      \* two conditional groups inside a group repeated a fixed number of times
      BiasHdr \o
      <<FixedGroup("group", 2,
                   <<Optional("groupL1CA", "DF422_1", 1, <<Flat("DF423")>>),
                     Optional("groupL1P", "DF422_2", 1, <<Flat("DF424")>>)>>)>>,
      \* a conditional group followed by a field inside a group whose count
      \* is a decoded attribute, then a conditional group at the top level
      BiasHdr \o
      <<Group("group", "DF001_3", 0,
              <<Optional("groupL2CA", "DF422_3", 1, <<Flat("DF425")>>),
                Flat("DF426")>>),
        Optional("groupL2P", "DF422_4", 1, <<Flat("DF424")>>)>>,
      \* a trigger that names a field decoded inside the group, which is
      \* stored as DF421_01 and not as DF421
      <<Flat("DF002"), Flat("DF003"),
        FixedGroup("group", 1,
                   <<Flat("DF421"),
                     Optional("groupL1CA", "DF421", 1, <<Flat("DF423")>>)>>)>> }

\* 1230 payloads: DF001_3 = 2 and every combination of two bias indicators
OptSamples ==
    { Sample(<<76, 224, 0, 128>>, 0),    \* the benchmark corpus: no indicator set
      Sample(<<76, 224, 0, 32>>, 110),   \* no indicator set
      Sample(<<76, 224, 0, 46>>, 110),   \* L1 C/A, L1 P and L2 C/A set
      Sample(<<76, 224, 0, 37>>, 110),   \* L1 P and L2 P set
      Sample(<<76, 224, 0, 171>>, 255) } \* DF421 set; L1 C/A, L2 C/A, L2 P set

OptPayloads == { MkPayload(sm, n) : sm \in OptSamples, n \in 2..MaxPayLen }

\* __init__ and _do_attributes up to the loop, for a message whose payload
\* definition is gdict
ConstructWith(p, s, gdict) ==
    /\ pc = "new"
    /\ LET o0 == Store(NewObject, "_immutable", FALSE)
           o1 == Setattr(o0, "_payload", p).o
           o2 == Setattr(o1, "_payblen", Len(p) * 8).o
           o3 == Setattr(o2, "_scaling", s).o
           o4 == Setattr(o3, "_labelmsm", 1).o
           o5 == Setattr(o4, "_unknown", FALSE).o
       IN  /\ self' = o5
           /\ pc' = "walk"
           /\ pdict' = gdict
    /\ offset' = 0
    /\ index' = <<>>
    /\ UNCHANGED <<pos, anam, err, calls, ret>>

NextOpt ==
    \/ \E p \in OptPayloads, s \in BOOLEAN, gdict \in OptSchemas : ConstructWith(p, s, gdict)
    \/ DecodeNext
    \/ Finish

SpecOpt == Init /\ [][NextOpt]_vars


-----------------------------------------------------------------------------
(* Reference definitions used to state the properties: the payload as a     *)
(* sequence of bits, most significant bit of each byte first.               *)

ByteToBits(b) == [i \in 1..8 |-> (b \div Pow2(8 - i)) % 2]

RECURSIVE PayloadBits(_)
PayloadBits(bytes) ==
    IF Len(bytes) = 0 THEN <<>>
    ELSE ByteToBits(Head(bytes)) \o PayloadBits(Tail(bytes))

\* the unsigned value of a bit sequence read MSB-first
RECURSIVE BitsValue(_)
BitsValue(bits) ==
    IF Len(bits) = 0 THEN 0
    ELSE 2 * BitsValue(SubSeq(bits, 1, Len(bits) - 1)) + bits[Len(bits)]

\* the number of set bits of a bit sequence
RECURSIVE Ones(_)
Ones(bits) == IF Len(bits) = 0 THEN 0 ELSE Head(bits) + Ones(Tail(bits))

\* bits first..first+width-1 (0-based) of the payload
BitsAt(bytes, first, width) == SubSeq(PayloadBits(bytes), first + 1, first + width)

Constructing == pc \in {"walk", "ret"}
Constructed == pc = "built"

\* the identity of a payload as the specification words it
RefIdentity(bytes) ==
    LET n == BitsValue(BitsAt(bytes, 0, 12))
        sub == BitsValue(BitsAt(bytes, 15, 8))
    IN  IF n = 4076
        THEN "4076_" \o ToString(sub \div 100) \o ToString((sub \div 10) % 10)
                     \o ToString(sub % 10)
        ELSE ToString(n)

\* the payload is long enough to carry an identity
HasIdentity(bytes) ==
    /\ bytes # None
    /\ Len(bytes) >= 2
    /\ BitsValue(BitsAt(bytes, 0, 12)) = 4076 => Len(bytes) >= 3

-----------------------------------------------------------------------------
(* C1: once construction has completed, every attribute assignment on the   *)
(* message (new or existing, public or private) fails with                  *)
(* RTCMMessageError and leaves every attribute unchanged; while the         *)
(* constructor runs the message is mutable, so the assignments of the       *)
(* decode walk succeed.                                                     *)

C1_ImmutableAfterConstruction ==
    /\ [](Constructed => self.immutable)
    /\ [](Constructing => ~self.immutable)
    /\ []((Constructed /\ ret.op = "setattr") => ret.err = "RTCMMessageError")
    /\ [][Constructed => (pc' = "built" /\ self' = self)]_vars

C1_Witness ==
    /\ Constructed
    /\ Len(self.attrs) > 1
    /\ ret.op = "setattr"
    /\ ret.arg = <<"foo">>
    /\ ret.err = "RTCMMessageError"

(* C2: constructing with an absent payload (None) or an empty payload       *)
(* fails with RTCMMessageError "Payload must be specified" and with no      *)
(* other kind of error.                                                     *)

C2_MissingPayload ==
    (pc # "new" /\ (self.payload = None \/ self.payload = <<>>))
        => /\ pc = "failed"
           /\ err.kind = "RTCMMessageError"
           /\ err.cause = "Payload must be specified"

(* C3: a payload whose identity has no payload definition is constructed    *)
(* without an error, the unknown flag is set, DF002 holding the identity    *)
(* string is its only attribute, no payload bit is decoded, and its         *)
(* rendering ends with ", Not_Yet_Implemented" and ")>".                    *)

NoDefinition ==
    /\ pc # "new"
    /\ HasIdentity(self.payload)
    /\ RefIdentity(self.payload) \notin DOMAIN RTCM_PAYLOADS_GET

C3_UnknownMessage ==
    NoDefinition =>
        /\ pc \in {"ret", "built"}
        /\ err = NoErr
        /\ self.unknown
        /\ self.attrs = <<[k |-> "DF002", v |-> StrVal(RefIdentity(self.payload))]>>
        /\ offset = 0
        /\ ret.op = "str" =>
            /\ Len(ret.val) >= 2
            /\ ret.val[Len(ret.val) - 1] = ", Not_Yet_Implemented"
            /\ ret.val[Len(ret.val)] = ")>"
            /\ ret.val = <<"<RTCM(", RefIdentity(self.payload), ", ", "DF002", "=",
                           RefIdentity(self.payload), ", Not_Yet_Implemented", ")>">>

C3_Witness ==
    /\ NoDefinition
    /\ Constructed
    /\ self.payload = <<77, 39, 0>>
    /\ ret.op = "str"

(* C4: every exception raised while constructing from a payload that is     *)
(* not None reaches the caller as RTCMTypeError naming the attribute being  *)
(* decoded and the message identity; no other kind of error escapes.        *)

C4_FailuresAreWrapped ==
    (pc = "failed" /\ self.payload # None)
        => /\ err.kind = "RTCMTypeError"
           /\ err.anam # ""
           /\ err.id = RefIdentity(self.payload)

(* C5: _getbits(o, w) on a payload of B bits fails with RTCMMessageError    *)
(* exactly when o + w > B; otherwise (the exact fit o + w = B included) it  *)
(* returns the unsigned value of bits o..o+w-1 read MSB-first; the walk     *)
(* never takes bits beyond the end of the payload.                          *)

C5_BitRange ==
    /\ (Constructing \/ Constructed) => offset <= 8 * Len(self.payload)
    /\ ret.op = "getbits" =>
        LET o == ret.arg[1]
            w == ret.arg[2]
            B == 8 * Len(self.payload)
        IN  /\ (ret.err = "RTCMMessageError") <=> (o + w > B)
            /\ ret.err \in {"", "RTCMMessageError"}
            /\ o + w <= B => ret.val = <<BitsValue(BitsAt(self.payload, o, w))>>

C5_Witness ==
    /\ ret.op = "getbits"
    /\ ret.arg[2] > 0
    /\ ret.arg[1] + ret.arg[2] = 8 * Len(self.payload)
    /\ ret.err = ""
    /\ ret.val[1] > 0


(* C6: serialize() returns the preamble 0xD3, the two-byte payload length,  *)
(* the stored payload unchanged and the three-byte CRC-24Q of               *)
(* preamble+length+payload; the bytes are a function of the payload alone   *)
(* (not of the scaling flag, the labeling mode or any decoded attribute),   *)
(* and serialize() changes no attribute of the message.                     *)

\* the low 24 bits of the CRC-24Q generator 0x1864CFB, MSB first
RefPolyBits == <<1,0,0,0, 0,1,1,0, 0,1,0,0, 1,1,0,0, 1,1,1,1, 1,0,1,1>>

RefPoly == BitsValue(RefPolyBits)

\* bitwise exclusive or of two naturals
RECURSIVE RefXor(_, _)
RefXor(a, b) ==
    IF a = 0 THEN b
    ELSE IF b = 0 THEN a
    ELSE ((a + b) % 2) + 2 * RefXor(a \div 2, b \div 2)

\* the 24-bit CRC register after one more message bit
RefCrcStep(reg, b) ==
    LET shifted == 2 * (reg % 8388608)
    IN  IF reg \div 8388608 # b THEN RefXor(shifted, RefPoly) ELSE shifted

\* the register after the eight bits of one byte, most significant first
RefCrcByte(reg, byte) ==
    LET bits == ByteToBits(byte)
        r1 == RefCrcStep(reg, bits[1])
        r2 == RefCrcStep(r1, bits[2])
        r3 == RefCrcStep(r2, bits[3])
        r4 == RefCrcStep(r3, bits[4])
        r5 == RefCrcStep(r4, bits[5])
        r6 == RefCrcStep(r5, bits[6])
        r7 == RefCrcStep(r6, bits[7])
    IN  RefCrcStep(r7, bits[8])

\* the remainder of the message, taken one bit at a time
RECURSIVE RefCrcBits(_, _, _)
RefCrcBits(bytes, i, reg) ==
    IF i > Len(bytes) \/ reg < 0 THEN reg
    ELSE RefCrcBits(bytes, i + 1, RefCrcByte(reg, bytes[i]))

RefCrc(bytes) ==
    LET reg == RefCrcBits(bytes, 1, 0)
    IN  <<reg \div 65536, (reg \div 256) % 256, reg % 256>>

RefFrame(bytes) ==
    LET framed == <<211, Len(bytes) \div 256, Len(bytes) % 256>> \o bytes
    IN  framed \o RefCrc(framed)

C6_SerializeFramesPayload ==
    /\ [](ret.op = "serialize" =>
            /\ Constructed
            /\ ret.err = ""
            /\ ret.val = RefFrame(self.payload)
            /\ SubSeq(ret.val, 4, 3 + Len(self.payload)) = self.payload)
    /\ [][ret'.op = "serialize" => self' = self]_vars

\* the 1230 message of the benchmark corpus
C6_Witness ==
    /\ ret.op = "serialize"
    /\ self.payload = <<76, 224, 0, 128>>
    /\ ~self.scaling
    /\ ret.val = <<211, 0, 4, 76, 224, 0, 128, 237, 237, 214>>

(* C7: the identity is derived from the payload bytes only: the decimal     *)
(* string of the top 12 bits n, and for n = 4076 "4076_" followed by the    *)
(* three-digit zero-padded 8-bit sub-type that follows 3 reserved bits; it  *)
(* is the same during and after decoding whatever the scaling flag, the     *)
(* labeling mode or the decoded attributes.                                 *)

C7_IdentityFromPayload ==
    /\ []((pc # "new" /\ HasIdentity(self.payload)) =>
            Identity(self) = [err |-> "", val |-> RefIdentity(self.payload)])
    /\ [](ret.op = "identity" =>
            /\ ret.err = ""
            /\ ret.val = <<RefIdentity(self.payload)>>)
    /\ [](Constructed => \/ self.unknown
                         \/ GetAttr(self, "DF002") = IntVal(BitsValue(BitsAt(self.payload, 0, 12))))
    /\ [][pc # "new" => self'.payload = self.payload]_vars

C7_Witness ==
    /\ Constructed
    /\ ~self.unknown
    /\ Len(self.attrs) > 9
    /\ ret.op = "identity"
    /\ ret.val = <<"4076_025">>


-----------------------------------------------------------------------------
(* The attributes a schema yields, as the specification words it: the       *)
(* nested schema of a repeating group once for each index 1..n, every flat  *)
(* field named by its code followed by _NN for each active index,           *)
(* outermost first.                                                         *)

Range1(seq) == { seq[i] : i \in 1..Len(seq) }

TwoDigits(i) == ToString(i \div 10) \o ToString(i % 10)

RECURSIVE RefSuffix(_)
RefSuffix(idx) ==
    IF Len(idx) = 0 THEN ""
    ELSE RefSuffix(SubSeq(idx, 1, Len(idx) - 1)) \o "_" \o TwoDigits(idx[Len(idx)])

\* the resolved count of a repeating group inside the groups numbered idx
RefCount(e, idx, o) ==
    IF e.fixed THEN e.siz
    ELSE IF e.cnam \in {NHARMCOEFFC, NHARMCOEFFS}
    THEN LET N == GetAttr(o, "IDF037" \o RefSuffix(<<idx[1]>>)).n + 1
             M == GetAttr(o, "IDF038" \o RefSuffix(<<idx[1]>>)).n + 1
             nc == ((N + 1) * (N + 2)) \div 2 - ((N - M) * (N - M + 1)) \div 2
         IN  IF e.cnam = NHARMCOEFFC THEN nc ELSE nc - (N + 1)
    ELSE LET n == GetAttr(o, e.cnam \o RefSuffix(SubSeq(idx, 1, e.nest))).n
         IN  IF e.cnam = "IDF035" THEN n + 1 ELSE n

RECURSIVE RefEntry(_, _, _)
RECURSIVE RefBody(_, _, _, _)
RECURSIVE RefGroup(_, _, _, _)

RefEntry(e, idx, o) ==
    IF e.kind = "single" THEN << [name |-> e.key \o RefSuffix(idx), code |-> e.key] >>
    ELSE IF e.kind = "group" THEN RefGroup(e, idx, 1, o)
    ELSE IF GetAttr(o, e.cnam).n = e.con * GetAttr(o, e.cnam).d
         THEN RefBody(e.body, 1, idx, o)
         ELSE <<>>

RefBody(body, k, idx, o) ==
    IF k > Len(body) THEN <<>>
    ELSE RefEntry(body[k], idx, o) \o RefBody(body, k + 1, idx, o)

RefGroup(e, idx, i, o) ==
    IF i > RefCount(e, idx, o) THEN <<>>
    ELSE RefBody(e.body, 1, Append(idx, i), o) \o RefGroup(e, idx, i + 1, o)

RefNames(fields) == [i \in 1..Len(fields) |-> fields[i].name]

RECURSIVE RefWidth(_)
RefWidth(fields) ==
    IF Len(fields) = 0 THEN 0
    ELSE RTCM_DATA_FIELDS[Head(fields).code].siz + RefWidth(Tail(fields))

(* C8: with scaling disabled every decoded attribute holds its unscaled     *)
(* integer whatever the field's scale factor in the Data Field Catalog,     *)
(* and the widths, the offsets and the attribute names are those of the     *)
(* same payload decoded with scaling enabled.                               *)

\* the same payload decoded as far as the walk has come, scaling enabled
ScaledWalk ==
    DoAttributes([self EXCEPT !.scaling = TRUE, !.attrs = <<>>, !.immutable = FALSE],
                 SubSeq(pdict, 1, pos))

\* what scaling makes of the unscaled value v of a field
RefScaled(code, v) ==
    LET f == RTCM_DATA_FIELDS[code]
    IN  IF f.typ \in {"INT", "UNT"} /\ f.num # 0 THEN Num(v.n * f.num, f.den) ELSE v

Unscaled == (Constructing \/ Constructed) /\ ~self.scaling /\ ~self.unknown

C8_ScalingDisabled ==
    Unscaled =>
        LET sw == ScaledWalk
            pub == SelectSeq(self.attrs, LAMBDA a : a.k \in Range1(PublicNames(self)))
            spub == SelectSeq(sw.o.attrs, LAMBDA a : a.k \in Range1(PublicNames(sw.o)))
            fields == RefBody(SubSeq(pdict, 1, pos), 1, <<>>, self)
        IN  /\ sw.err = ""
            /\ sw.offset = offset
            /\ sw.index = index
            /\ PublicNames(sw.o) = PublicNames(self)
            /\ RefNames(fields) = PublicNames(self)
            /\ \A i \in 1..Len(pub) :
                /\ pub[i].v.d = 1
                /\ pub[i].v.t \in {"num", "chr"}
                /\ spub[i].v = RefScaled(fields[i].code, pub[i].v)

\* IDF025 (scale factor 0.01) of the 4076_025 sample holds -3, not -0.03
C8_Witness ==
    /\ Unscaled
    /\ Constructed
    /\ HasAttr(self, "IDF025_01_01")
    /\ GetAttr(self, "IDF025_01_01") = IntVal(-3)
    /\ GetAttr(ScaledWalk.o, "IDF025_01_01") = Num(-3, 100)

(* C9: in an MSM schema the satellite, signal and cell counts kept after    *)
(* DF394, DF395 and DF396 are the numbers of set bits of those raw masks    *)
(* (scaling on or off), DF396 is satellites x signals bits wide, and the    *)
(* groups sized by the counts are decoded exactly that many times.          *)

MsmSchema == RTCM_PAYLOADS_GET["1071"]

\* the bit offset of DF394: the widths of the header fields before it
MaskOffset == RefWidth([i \in 1..10 |-> [name |-> MSM_HDR[i].key, code |-> MSM_HDR[i].key]])

RefNSat == Ones(BitsAt(self.payload, MaskOffset, SatMaskBits))
RefNSig == Ones(BitsAt(self.payload, MaskOffset + SatMaskBits, SigMaskBits))
RefNCell == Ones(BitsAt(self.payload, MaskOffset + SatMaskBits + SigMaskBits,
                        RefNSat * RefNSig))

\* the names code_01 .. code_n
Repeats(code, n) == [i \in 1..n |-> code \o "_" \o TwoDigits(i)]

C9_MsmGroupSizes ==
    ((Constructing \/ Constructed) /\ pdict = MsmSchema) =>
        /\ pos >= 11 => GetAttr(self, NSAT) = IntVal(RefNSat)
        /\ pos >= 12 => GetAttr(self, NSIG) = IntVal(RefNSig)
        /\ pos = 12 => offset = MaskOffset + SatMaskBits + SigMaskBits
        /\ pos >= 13 => GetAttr(self, NCELL) = IntVal(RefNCell)
        /\ pos = 13 => offset = MaskOffset + SatMaskBits + SigMaskBits + RefNSat * RefNSig
        /\ pos = 13 => PublicNames(self) = [i \in 1..13 |-> MSM_HDR[i].key]
        /\ pos = 14 => PublicNames(self) =
                          [i \in 1..13 |-> MSM_HDR[i].key] \o Repeats("DF398", RefNSat)
        /\ pos = 15 => PublicNames(self) =
                          [i \in 1..13 |-> MSM_HDR[i].key] \o Repeats("DF398", RefNSat)
                              \o Repeats("DF400", RefNCell)

C9_Witness ==
    /\ Constructed
    /\ pdict = MsmSchema
    /\ ~self.scaling
    /\ RefNSat >= 2
    /\ RefNSat < GetAttr(self, "DF394").n
    /\ RefNSig >= 2
    /\ RefNCell >= 2
    /\ RefNCell < RefNSat * RefNSig
    /\ HasAttr(self, "DF398" \o "_" \o TwoDigits(RefNSat))
    /\ HasAttr(self, "DF400" \o "_" \o TwoDigits(RefNCell))

(* C10: a repeating group with resolved count n decodes its nested schema   *)
(* n times in order with the indices 1..n, stores each flat field under     *)
(* its code suffixed _NN for each active nesting level, outermost first,    *)
(* advances the bit offset by the sum of the widths decoded (zero when      *)
(* n = 0) and leaves the group-index stack as it found it, so the stack is  *)
(* empty when the walk completes.                                           *)

\* the step decodes a repeating group of the schema without an error
GroupStep ==
    /\ pc = "walk"
    /\ pc' \in {"walk", "ret"}
    /\ pos' = pos + 1
    /\ pdict[pos'].kind = "group"

C10_RepeatingGroup ==
    /\ []((Constructing \/ Constructed) => index = <<>>)
    /\ [][GroupStep =>
            LET fields == RefGroup(pdict[pos'], index, 1, self')
            IN  /\ PublicNames(self') = PublicNames(self) \o RefNames(fields)
                /\ offset' = offset + RefWidth(fields)
                /\ index' = index
                /\ RefCount(pdict[pos'], index, self') = 0 =>
                      (offset' = offset /\ PublicNames(self') = PublicNames(self))]_vars

\* two satellites with two and one biases: a group nested in a group
C10_Witness ==
    /\ Constructed
    /\ index = <<>>
    /\ HasAttr(self, "IDF025_01_02")
    /\ HasAttr(self, "IDF024_02_01")
    /\ ~HasAttr(self, "IDF024_02_02")
    /\ GetAttr(self, "IDF023_01") = IntVal(2)
    /\ GetAttr(self, "IDF023_02") = IntVal(1)


(* C11: a conditional group, at the top level of a schema or inside a       *)
(* repeating group, decodes its nested schema exactly once at the current   *)
(* offset and index state when the already-decoded value of its trigger     *)
(* field equals the trigger value; otherwise it contributes nothing: the    *)
(* offset, the group-index stack and the decoded attributes are unchanged.  *)
(* The conditional group itself raises no error, so a walk over it fails    *)
(* only when the payload runs out of bits for a field.                      *)

\* the already-decoded value of the trigger of e equals the trigger value
TriggerMet(e, o) == GetAttr(o, e.cnam).n = e.con * GetAttr(o, e.cnam).d

\* the step walks a top-level conditional group
OptionalStep ==
    /\ pc = "walk"
    /\ pos' = pos + 1
    /\ pdict[pos'].kind = "optional"

\* the step walks a repeating group that holds a conditional group
NestedOptionalStep ==
    /\ pc = "walk"
    /\ pos' = pos + 1
    /\ pdict[pos'].kind = "group"
    /\ \E k \in 1..Len(pdict[pos'].body) : pdict[pos'].body[k].kind = "optional"

\* the signed value of a bit sequence in two's complement
RefSigned(bits) == BitsValue(bits) - (IF bits[1] = 1 THEN Pow2(Len(bits)) ELSE 0)

\* the step failed, and for no other reason than a field past the payload
OutOfBits == pc' = "failed" => err'.cause = "RTCMMessageError"

====
